---------------------------- MODULE Spec2Model ----------------------------
(***************************************************************************)
(* proto-change-miner: the RQ0 co-change pipeline (src/src/experiments/rq0,  *)
(* src/src/lib) and the legacy miner (src/collect_transactions.py,          *)
(* src/mine_association_rules.py) as state machines.                        *)
(*                                                                         *)
(* Paths are strings; Python's str and pathlib operations are defined on   *)
(* them character by character.  Floats are exact rationals <<num, den>>.  *)
(***************************************************************************)
EXTENDS Integers, Sequences, FiniteSets, TLC

(***************************************************************************)
(* Python str / pathlib / re / fnmatch                                     *)
(***************************************************************************)
Ch(s, i) == SubSeq(s, i, i)

UpperChars == "ABCDEFGHIJKLMNOPQRSTUVWXYZ"
LowerChars == "abcdefghijklmnopqrstuvwxyz"

LowerChar(c) ==
  LET I == {k \in 1..Len(UpperChars) : Ch(UpperChars, k) = c}
  IN  IF I = {} THEN c ELSE Ch(LowerChars, CHOOSE k \in I : TRUE)

RECURSIVE lower(_)
lower(s) == IF Len(s) = 0 THEN s
            ELSE LowerChar(Ch(s, 1)) \o lower(SubSeq(s, 2, Len(s)))

startswith(s, pre) == Len(pre) <= Len(s) /\ SubSeq(s, 1, Len(pre)) = pre

endswith(s, suf) ==
  Len(suf) <= Len(s) /\ SubSeq(s, Len(s) - Len(suf) + 1, Len(s)) = suf

contains(s, sub) ==
  \E i \in 1..(Len(s) - Len(sub) + 1) : SubSeq(s, i, i + Len(sub) - 1) = sub

\* str.rfind, 1-based; 0 when c does not occur
rfind(s, c) ==
  LET I == {i \in 1..Len(s) : Ch(s, i) = c}
  IN  IF I = {} THEN 0 ELSE CHOOSE i \in I : \A j \in I : j <= i

RECURSIVE rstrip_slash(_)
rstrip_slash(s) == IF Len(s) > 0 /\ Ch(s, Len(s)) = "/"
                   THEN rstrip_slash(SubSeq(s, 1, Len(s) - 1))
                   ELSE s

\* pathlib.PurePath.name: the last component
PathName(p) ==
  LET q == rstrip_slash(p)
  IN  SubSeq(q, rfind(q, "/") + 1, Len(q))

\* pathlib.PurePath.suffix: name[i:] for the last dot, when 0 < i < len(name)-1
PathSuffix(p) ==
  LET name == PathName(p)
      i    == rfind(name, ".")
  IN  IF 1 < i /\ i < Len(name) THEN SubSeq(name, i, Len(name)) ELSE ""

\* fnmatch.fnmatch for patterns made of literals and '*'
RECURSIVE fnmatch(_, _)
fnmatch(name, pat) ==
  IF Len(pat) = 0 THEN Len(name) = 0
  ELSE IF Ch(pat, 1) = "*"
       THEN \/ fnmatch(name, SubSeq(pat, 2, Len(pat)))
            \/ Len(name) > 0 /\ fnmatch(SubSeq(name, 2, Len(name)), pat)
       ELSE /\ Len(name) > 0
            /\ Ch(name, 1) = Ch(pat, 1)
            /\ fnmatch(SubSeq(name, 2, Len(name)), SubSeq(pat, 2, Len(pat)))

\* re.search of (^|/)(w1|w2|...)(/|$) in s
DirPatSearch(s, words) ==
  \E i \in 1..Len(s) : \E w \in words :
     /\ i = 1 \/ Ch(s, i - 1) = "/"
     /\ i + Len(w) - 1 <= Len(s)
     /\ SubSeq(s, i, i + Len(w) - 1) = w
     /\ i + Len(w) - 1 = Len(s) \/ Ch(s, i + Len(w)) = "/"

(***************************************************************************)
(* lib/categorize.py                                                       *)
(***************************************************************************)
TEST_PAT == {"test", "tests", "testing"}
CI_PAT == {"ci", "pipeline", "workflows"}

EXT_IMPL == {".go", ".java", ".py", ".js", ".ts", ".tsx", ".jsx", ".kt",
             ".rb", ".rs", ".php", ".cs"}
EXT_CONFIG == {".yml", ".yaml", ".json", ".toml", ".ini", ".cfg", ".env"}
EXT_BUILD == {".gradle", ".xml"}
EXT_INFRA == {".tf"}

should_skip(path, skip_prefixes, skip_suffixes, skip_patterns) ==
  LET low == lower(path)
  IN  \/ \E pre \in skip_prefixes : startswith(low, pre)
      \/ \E suf \in skip_suffixes : endswith(low, suf)
      \/ /\ skip_patterns # {}
         /\ \E pat \in skip_patterns : fnmatch(PathName(low), pat)

\* categorize with the CI rule tried before the test rule
categorize_ci_first(path) ==
  LET p    == lower(path)
      name == PathName(p)
      ext  == PathSuffix(p)
  IN  IF DirPatSearch(p, CI_PAT) \/ startswith(p, ".github/") \/ startswith(p, ".gitlab/")
      THEN "ci"
      ELSE IF DirPatSearch(p, TEST_PAT) \/ endswith(name, "_test.go") \/ endswith(name, "test.java")
      THEN "test"
      ELSE IF \/ startswith(p, "docker/") \/ startswith(p, "k8s/")
              \/ startswith(p, "helm/") \/ startswith(p, "charts/")
              \/ contains(p, "docker-compose")
      THEN "infra"
      ELSE IF name = "dockerfile" THEN "infra"
      ELSE IF name = "makefile" THEN "build"
      ELSE IF name \in {"pom.xml", "build.gradle", "settings.gradle"} THEN "build"
      ELSE IF ext = ".proto" THEN "proto"
      ELSE IF ext \in EXT_IMPL THEN "impl"
      ELSE IF ext \in EXT_CONFIG THEN "config"
      ELSE IF ext \in EXT_INFRA THEN "infra"
      ELSE IF ext \in EXT_BUILD THEN "build"
      ELSE IF ext \in {".sh", ".bash", ".zsh"} THEN "build"
      ELSE "other"

\* categorize with the manifest names of lines 64-69 tried before the infra
\* directories of line 62
categorize_names_first(path) ==
  LET p    == lower(path)
      name == PathName(p)
      ext  == PathSuffix(p)
  IN  IF DirPatSearch(p, TEST_PAT) \/ endswith(name, "_test.go") \/ endswith(name, "test.java")
      THEN "test"
      ELSE IF DirPatSearch(p, CI_PAT) \/ startswith(p, ".github/") \/ startswith(p, ".gitlab/")
      THEN "ci"
      ELSE IF name = "dockerfile" THEN "infra"
      ELSE IF name = "makefile" THEN "build"
      ELSE IF name \in {"pom.xml", "build.gradle", "settings.gradle"} THEN "build"
      ELSE IF \/ startswith(p, "docker/") \/ startswith(p, "k8s/")
              \/ startswith(p, "helm/") \/ startswith(p, "charts/")
              \/ contains(p, "docker-compose")
      THEN "infra"
      ELSE IF ext = ".proto" THEN "proto"
      ELSE IF ext \in EXT_IMPL THEN "impl"
      ELSE IF ext \in EXT_CONFIG THEN "config"
      ELSE IF ext \in EXT_INFRA THEN "infra"
      ELSE IF ext \in EXT_BUILD THEN "build"
      ELSE IF ext \in {".sh", ".bash", ".zsh"} THEN "build"
      ELSE "other"

categorize(path) ==
  LET p    == lower(path)
      name == PathName(p)
      ext  == PathSuffix(p)
  IN  IF DirPatSearch(p, TEST_PAT) \/ endswith(name, "_test.go") \/ endswith(name, "test.java")
      THEN "test"
      ELSE IF DirPatSearch(p, CI_PAT) \/ startswith(p, ".github/") \/ startswith(p, ".gitlab/")
      THEN "ci"
      ELSE IF \/ startswith(p, "docker/") \/ startswith(p, "k8s/")
              \/ startswith(p, "helm/") \/ startswith(p, "charts/")
              \/ contains(p, "docker-compose")
      THEN "infra"
      ELSE IF name = "dockerfile" THEN "infra"
      ELSE IF name = "makefile" THEN "build"
      ELSE IF name \in {"pom.xml", "build.gradle", "settings.gradle"} THEN "build"
      ELSE IF ext = ".proto" THEN "proto"
      ELSE IF ext \in EXT_IMPL THEN "impl"
      ELSE IF ext \in EXT_CONFIG THEN "config"
      ELSE IF ext \in EXT_INFRA THEN "infra"
      ELSE IF ext \in EXT_BUILD THEN "build"
      ELSE IF ext \in {".sh", ".bash", ".zsh"} THEN "build"
      ELSE "other"


(***************************************************************************)
(* Bounds and inputs                                                       *)
(***************************************************************************)
MaxCommits == 3   \* commits of one repository's history, the root included
MaxCap == 1       \* largest --max_all_commits value tried

\* the paths a commit may touch, in git's (byte) order of diff-tree output
PathList == <<"docs/old.proto", "main.impl", "schema.proto", "service_pb2.py">>
PathSet == {PathList[k] : k \in 1..Len(PathList)}

\* max_all_commits = None (lib/config.py: "Noneなら全件")
NoneValue == -1

(***************************************************************************)
(* lib/config.py, lib/skip_rules.py                                        *)
(***************************************************************************)
cfg_skip_prefixes == {"docs/", ".github/", ".gitlab/", "vendor/", "third_party/",
                      "node_modules/"}
cfg_skip_suffixes == {".md", ".png", ".jpg", ".jpeg", ".gif", ".svg", ".lock", ".sum"}

SKIP_PREFIXES == {"docs/", ".github/", ".gitlab/", "vendor/", "third_party/",
                  "node_modules/", "generated/", "gen/", "dist/", "build/",
                  "target/", "out/"}
SKIP_SUFFIXES == {".md", ".png", ".jpg", ".jpeg", ".gif", ".svg", ".lock", ".sum",
                  ".pb.go", ".pb.cc", ".pb.h", ".pb.c", ".pb.java", ".pb.kt",
                  ".pb.py", ".proto.lock", "_generated.go", "_gen.go",
                  ".generated.go"}
SKIP_PATTERNS == {"*_pb.go", "*_grpc.pb.go", "*_grpc.pb.*", "*_pb2.py",
                  "*_pb2_grpc.py", "zz_generated.*", "bindata.go", "mock_*.go"}

\* RQ0Config as lib/config.py declares it and main() builds it: skip_prefixes
\* and skip_suffixes keep their defaults (cfg_skip_prefixes, cfg_skip_suffixes);
\* there is no skip_patterns field, so reading cfg.skip_patterns raises
\* AttributeError.
RQ0Config(max_all_commits) ==
  [max_all_commits   |-> max_all_commits,
   has_skip_patterns |-> FALSE,
   skip_patterns     |-> {}]

\* A config object that also carries the skip_patterns attribute which
\* compute_pairs.py and baseline_corpus.py read.
ConfigWithPatterns(max_all_commits, pats) ==
  [RQ0Config(max_all_commits) EXCEPT !.has_skip_patterns = TRUE,
                                      !.skip_patterns = pats]

Caps == {NoneValue} \cup 0..MaxCap

Configs == {RQ0Config(m) : m \in Caps}
           \cup {ConfigWithPatterns(m, pats) : m \in Caps, pats \in {{}, SKIP_PATTERNS}}

(***************************************************************************)
(* Python containers                                                       *)
(***************************************************************************)
Range(s) == {s[k] : k \in 1..Len(s)}

\* the elements of a set as a list, in every order a Python set may iterate
Orders(S) == {s \in [1..Cardinality(S) -> S] : \A a, b \in 1..Cardinality(S) : a # b => s[a] # s[b]}

\* the paths of S in sorted order
SortedList(S) == SelectSeq(PathList, LAMBDA p : p \in S)

\* collections.Counter
Get(c, k) == IF k \in DOMAIN c THEN c[k] ELSE 0
Incr(c, S) == [k \in DOMAIN c \cup S |-> Get(c, k) + (IF k \in S THEN 1 ELSE 0)]
EmptyCounter == [k \in {} |-> 0]

\* floats as exact rationals <<num, den>> in lowest terms; a division by zero
\* (Python raises ZeroDivisionError) gives a value whose den is 0
RECURSIVE Gcd(_, _)
Gcd(a, b) == IF b = 0 THEN a ELSE Gcd(b, a % b)
Norm(x) == IF x[2] = 0 THEN <<1, 0>>
           ELSE IF x[1] = 0 THEN <<0, 1>>
           ELSE <<x[1] \div Gcd(x[1], x[2]), x[2] \div Gcd(x[1], x[2])>>
Div(a, b) == Norm(<<a, b>>)
Zero == <<0, 1>>
FDiv(x, y) == Norm(<<x[1] * y[2], x[2] * y[1]>>)
DivError(x) == x[2] = 0
Geq(x, y) == x[1] * y[2] >= y[1] * x[2]
Gt(x, y) == x[1] * y[2] > y[1] * x[2]
FEq(x, y) == x[1] * y[2] = y[1] * x[2]

(***************************************************************************)
(* lib/git_backend.py over a history: hist[1] is the most recent commit,   *)
(* hist[Len(hist)] the root; a commit is [files |-> paths that differ from *)
(* its first parent (for the root: the paths of its tree)].                *)
(***************************************************************************)
is_proto_suffix(p) == endswith(lower(p), ".proto")

\* str.strip() for paths whose only whitespace is the blank
strip(s) ==
  LET I == {i \in 1..Len(s) : Ch(s, i) # " "}
  IN  IF I = {} THEN ""
      ELSE SubSeq(s, CHOOSE i \in I : \A j \in I : i <= j,
                     CHOOSE i \in I : \A j \in I : i >= j)

\* the paths of a tree as git prints them, in byte order: PathList and a file
\* whose name begins with a blank (git prints a blank unquoted)
GitPathList == <<" main.impl">> \o PathList
GitPathSet == {GitPathList[k] : k \in 1..Len(GitPathList)}

\* The functions of a path the pipeline evaluates, tabulated over PathSet
CategoryOf == [p \in PathSet |-> categorize(p)]
ProtoSuffix == [p \in PathSet |-> is_proto_suffix(p)]
\* git's pathspec '*.proto' (case-sensitive, '*' also matches '/')
PathspecProto == [p \in GitPathSet |-> fnmatch(p, "*.proto")]
\* f.strip() of a printed line
StripOf == [p \in GitPathSet |-> strip(p)]
\* should_skip under the config's prefixes and suffixes, for each value of
\* skip_patterns a call passes ({} is the parameter's default)
SkipOf ==
  [pats \in {{}, SKIP_PATTERNS} |->
     [p \in PathSet |-> should_skip(p, cfg_skip_prefixes, cfg_skip_suffixes, pats)]]

list_all_non_merge_commits(hist, max_commits) ==
  LET n == IF max_commits = NoneValue \/ max_commits > Len(hist)
           THEN Len(hist) ELSE max_commits
  IN  [k \in 1..n |-> k]

\* git rev-list --no-merges --all -- '*.proto'
list_proto_change_commits(hist) ==
  SelectSeq([k \in 1..Len(hist) |-> k],
            LAMBDA k : \E f \in hist[k].files : PathspecProto[f])

\* git diff-tree --no-commit-id --name-only -r <commit>: without --root it
\* prints nothing for a commit that has no parent
changed_files_in_commit(hist, c) ==
  IF c = Len(hist) THEN <<>>
  ELSE LET out == SelectSeq(GitPathList, LAMBDA p : p \in hist[c].files)
       IN  SelectSeq([k \in 1..Len(out) |-> StripOf[out[k]]], LAMBDA f : Len(f) > 0)

(***************************************************************************)
(* State                                                                   *)
(***************************************************************************)
VARIABLES
  fs,          \* repos_dir: repository name -> [hist, ls_proto]
  cfg,         \* the configuration of the run
  main_pc,     \* experiments/rq0/main.py main(): "init", "pool", "done", "raised"
  tasks,       \* the repositories handed to the pool, in order
  worker,      \* repository -> the state of its _process_one call
  events_file, \* repository -> rq0/events/<repo>.jsonl
  pairs_csv,   \* repository -> rq0/pairs/repo=<repo>/pairs.csv
  summary_csv, \* rq0/repo_summary.csv
  call_path,   \* the argument of a categorize call
  category,    \* its result, "unset" before the call
  transactions_jsonl, \* mine_association_rules.py: the input file transactions.jsonl
  mine_pc,     \* mine_association_rules.py main(): "init", "done", "raised"
  total_tx,    \* its counters after the counting loop
  count_file,
  co_count,
  output_csv,  \* proto_file_cochanges.csv
  merge_all,     \* main.py --merge_all
  all_pairs_csv, \* rq0/all_pairs.csv
  n_runs,        \* how often main() has been started on this out_dir
  prev_run,      \* the inputs and outputs of the previous run of main()
  col_csv,     \* collect_transactions.py: repos_with_protobuf_flag.csv, [exists, urls]
  col_pc,      \* its main(): "init", "pool", "done", "raised"
  col_procs,   \* n_procs, the size of its pool
  col_task,    \* index of a URL -> the state of its collect_for_repo call
  col_dirs,    \* REPOS_DIR: directory name -> "absent", "partial", "shallow", "full"
  col_rows,    \* all_rows: the repo names of the results received so far
  col_out      \* results/transactions.jsonl

rq0Vars == <<fs, cfg, main_pc, tasks, worker, events_file, pairs_csv, summary_csv>>
catVars == <<call_path, category>>
mineVars == <<transactions_jsonl, mine_pc, total_tx, count_file, co_count, output_csv>>
aggVars == <<merge_all, all_pairs_csv, n_runs, prev_run>>
colVars == <<col_csv, col_pc, col_procs, col_task, col_dirs, col_rows, col_out>>
vars == <<rq0Vars, catVars, mineVars, aggVars, colVars>>

NoFile == [exists |-> FALSE, lines |-> <<>>]
File(lines) == [exists |-> TRUE, lines |-> lines]

\* the locals of _process_one / compute_pairs_for_repo before the call
IdleWorker ==
  [pc                   |-> "idle",
   exc                  |-> "none",
   i                    |-> 0,
   proto_commits        |-> <<>>,
   n_proto_tx_any       |-> 0,
   n_proto_tx_for_proto |-> EmptyCounter,
   n_both_tx            |-> EmptyCounter,
   n_both_order         |-> <<>>,
   candidate_files      |-> {},
   candidate_protos     |-> {},
   all_commits          |-> <<>>,
   n_all_tx             |-> 0,
   n_file_tx            |-> EmptyCounter,
   rows                 |-> <<>>]

Raised(e) == [IdleWorker EXCEPT !.pc = "raised", !.exc = e]

(***************************************************************************)
(* experiments/rq0/compute_pairs.py                                        *)
(***************************************************************************)
\* _filtered_changed_files: [exc, files].  git_ok = FALSE is a failing git call
\* (run_git raises GitError).  The comprehension reads cfg.skip_patterns once
\* per changed file, so a config without the field raises when there is one.
filtered_changed_files(hist, c, config, git_ok) ==
  IF ~git_ok THEN [exc |-> "GitError", files |-> <<>>]
  ELSE LET files == changed_files_in_commit(hist, c)
       IN  IF Len(files) > 0 /\ ~config.has_skip_patterns
           THEN [exc |-> "AttributeError", files |-> <<>>]
           ELSE [exc |-> "none",
                 files |-> SelectSeq(files, LAMBDA p : ~SkipOf[config.skip_patterns][p])]

protos_of(files) == SelectSeq(files, LAMBDA p : ProtoSuffix[p])

cochange_of(files) ==
  SelectSeq(SelectSeq(files, LAMBDA p : ~ProtoSuffix[p]),
            LAMBDA p : CategoryOf[p] # "proto")

\* the (p, f) pairs of the nested loop over protos_set and cochange_set,
\* po and fo being the orders in which the two sets iterate
PairLoop(po, fo) ==
  [k \in 1..(Len(po) * Len(fo)) |->
     <<po[((k - 1) \div Len(fo)) + 1], fo[((k - 1) % Len(fo)) + 1]>>]

\* Phase1Commit without the "if not protos: continue" of lines 60-61
Phase1Commit_no_proto_test(w, files, po, fo) ==
  LET protos       == protos_of(files)
      cochange_set == Range(cochange_of(files))
      protos_set   == Range(protos)
      loop         == PairLoop(po, fo)
  IN  [w EXCEPT
         !.i = @ + 1,
         !.candidate_protos = @ \cup protos_set,
         !.n_proto_tx_for_proto = Incr(@, protos_set),
         !.candidate_files = @ \cup cochange_set,
         !.n_both_order = @ \o SelectSeq(loop, LAMBDA k : k \notin DOMAIN w.n_both_tx),
         !.n_both_tx = Incr(@, Range(loop))]

\* one iteration of the Phase 1 loop (lines 56-79) on the filtered files
Phase1Commit(w, files, po, fo) ==
  LET protos       == protos_of(files)
      cochange_set == Range(cochange_of(files))
      protos_set   == Range(protos)
      loop         == PairLoop(po, fo)
  IN  IF Len(protos) = 0 THEN [w EXCEPT !.i = @ + 1]
      ELSE [w EXCEPT
              !.i = @ + 1,
              !.candidate_protos = @ \cup protos_set,
              !.n_proto_tx_for_proto = Incr(@, protos_set),
              !.candidate_files = @ \cup cochange_set,
              !.n_both_order = @ \o SelectSeq(loop, LAMBDA k : k \notin DOMAIN w.n_both_tx),
              !.n_both_tx = Incr(@, Range(loop))]

\* Phase2Commit without the set(files) of line 90: one increment for every
\* line of the change list that names a candidate file
Phase2Commit_per_occurrence(w, files) ==
  LET hits == SelectSeq(files, LAMBDA p : p \in w.candidate_files)
  IN  [w EXCEPT
         !.i = @ + 1,
         !.n_file_tx = [f \in DOMAIN w.n_file_tx \cup Range(hits) |->
                          Get(w.n_file_tx, f)
                          + Cardinality({k \in 1..Len(hits) : hits[k] = f})]]

\* one iteration of the Phase 2 loop (lines 88-93)
Phase2Commit(w, files) ==
  LET hit == Range(files) \cap w.candidate_files
  IN  [w EXCEPT !.i = @ + 1, !.n_file_tx = Incr(@, hit)]

\* MakeRow with lift = confidence / baseline computed without the
\* "if baseline > 0" guard
MakeRow_unguarded_lift(repo, w, key) ==
  LET both       == w.n_both_tx[key]
      proto_tx   == Get(w.n_proto_tx_for_proto, key[1])
      file_tx    == Get(w.n_file_tx, key[2])
      support    == IF w.n_all_tx # 0 THEN Div(both, w.n_all_tx) ELSE Zero
      confidence == IF proto_tx # 0 THEN Div(both, proto_tx) ELSE Zero
      baseline   == IF w.n_all_tx # 0 THEN Div(file_tx, w.n_all_tx) ELSE Zero
  IN  [repo                 |-> repo,
       proto_file           |-> key[1],
       file                 |-> key[2],
       file_category        |-> CategoryOf[key[2]],
       n_all_tx             |-> w.n_all_tx,
       n_proto_tx_for_proto |-> proto_tx,
       n_file_tx            |-> file_tx,
       n_both_tx            |-> both,
       support              |-> support,
       confidence           |-> confidence,
       baseline             |-> baseline,
       lift                 |-> FDiv(confidence, baseline)]

\* lines 97-119: one row per key of n_both_tx, in insertion order
MakeRow(repo, w, key) ==
  LET both       == w.n_both_tx[key]
      proto_tx   == Get(w.n_proto_tx_for_proto, key[1])
      file_tx    == Get(w.n_file_tx, key[2])
      support    == IF w.n_all_tx # 0 THEN Div(both, w.n_all_tx) ELSE Zero
      confidence == IF proto_tx # 0 THEN Div(both, proto_tx) ELSE Zero
      baseline   == IF w.n_all_tx # 0 THEN Div(file_tx, w.n_all_tx) ELSE Zero
      lift       == IF Gt(baseline, Zero) THEN FDiv(confidence, baseline) ELSE Zero
  IN  [repo                 |-> repo,
       proto_file           |-> key[1],
       file                 |-> key[2],
       file_category        |-> CategoryOf[key[2]],
       n_all_tx             |-> w.n_all_tx,
       n_proto_tx_for_proto |-> proto_tx,
       n_file_tx            |-> file_tx,
       n_both_tx            |-> both,
       support              |-> support,
       confidence           |-> confidence,
       baseline             |-> baseline,
       lift                 |-> lift]

BuildRows(repo, w) == [k \in 1..Len(w.n_both_order) |-> MakeRow(repo, w, w.n_both_order[k])]

RowRaises(row) ==
  DivError(row.support) \/ DivError(row.confidence) \/ DivError(row.baseline) \/ DivError(row.lift)

\* RepoPairResult without its rows: the summary _process_one returns
Summary(repo, w) ==
  [repo                    |-> repo,
   n_all_tx                |-> w.n_all_tx,
   n_proto_tx_any          |-> w.n_proto_tx_any,
   n_unique_proto_files    |-> Cardinality(w.candidate_protos),
   n_unique_cochange_files |-> Cardinality(w.candidate_files),
   n_pairs                 |-> Len(w.rows)]

(***************************************************************************)
(* experiments/rq0/extract_events.py                                       *)
(***************************************************************************)
\* the record of one proto-change commit, or <<>> when no .proto path survives;
\* should_skip is called without skip_patterns (its default, the empty tuple)
EventOf(repo, hist, c, config) ==
  LET files == SelectSeq(changed_files_in_commit(hist, c), LAMBDA p : ~SkipOf[{}][p])
      protobuf_files == protos_of(files)
      cochange_files == SelectSeq(files, LAMBDA p : ~ProtoSuffix[p])
      kept == SelectSeq(cochange_files, LAMBDA p : CategoryOf[p] # "proto")
  IN  IF Len(protobuf_files) = 0 THEN <<>>
      ELSE << [repo           |-> repo,
               commit         |-> c,
               protobuf_files |-> protobuf_files,
               cochange_files |-> [k \in 1..Len(kept) |->
                                    [path |-> kept[k], cat |-> CategoryOf[kept[k]]]]] >>

\* the lines written for the first n proto-change commits
RECURSIVE EventLines(_, _, _, _)
EventLines(repo, hist, config, n) ==
  IF n = 0 THEN <<>>
  ELSE EventLines(repo, hist, config, n - 1)
       \o EventOf(repo, hist, list_proto_change_commits(hist)[n], config)

\* extract_events_for_repo; fail_at = k > 0: the k-th diff-tree call fails
extract_events_for_repo(repo, hist, config, fail_at) ==
  LET n == Len(list_proto_change_commits(hist))
  IN  IF fail_at = 0
      THEN [exc |-> "none", file |-> File(EventLines(repo, hist, config, n))]
      ELSE [exc |-> "GitError", file |-> File(EventLines(repo, hist, config, fail_at - 1))]

(***************************************************************************)
(* experiments/rq0/main.py                                                 *)
(***************************************************************************)
\* repository directories, in sorted order (list_local_repos)
RepoList == <<"repoA", "repoB">>

\* histories of up to MaxCommits commits over the paths no prefix or suffix
\* rule of the config skips, and of one commit less over all paths
CorePaths == {p \in PathSet : ~SkipOf[{}][p]}
HistoriesOver(paths, n) == UNION {[1..k -> [files : SUBSET paths]] : k \in 0..n}
Histories == HistoriesOver(CorePaths, MaxCommits) \cup HistoriesOver(PathSet, MaxCommits - 1)

Finished(r) == worker[r].pc \in {"returned", "raised"}

\* main() up to the pool: list the repositories, keep those has_proto accepts,
\* and hand one _process_one task per repository to the pool
MainStart ==
  /\ main_pc = "init"
  /\ tasks' = SelectSeq(RepoList, LAMBDA r : r \in DOMAIN fs /\ fs[r].ls_proto)
  /\ worker' = [r \in DOMAIN fs |->
                  IF r \in Range(tasks') THEN [IdleWorker EXCEPT !.pc = "queued"]
                  ELSE IdleWorker]
  /\ main_pc' = "pool"
  /\ UNCHANGED <<fs, cfg, events_file, pairs_csv, summary_csv, catVars, mineVars, aggVars, colVars>>

\* _process_one: extract_events_for_repo, then compute_pairs_for_repo up to
\* its Phase 1 loop (lines 45-54)
ProcessOneEvents(r) ==
  /\ main_pc = "pool"
  /\ worker[r].pc = "queued"
  /\ LET hist == fs[r].hist
         pcs  == list_proto_change_commits(hist)
     IN  \E fail_at \in 0..Len(pcs) :
           LET res == extract_events_for_repo(r, hist, cfg, fail_at)
           IN  /\ events_file' = [events_file EXCEPT ![r] = res.file]
               /\ worker' = [worker EXCEPT ![r] =
                    IF res.exc # "none" THEN Raised(res.exc)
                    ELSE [IdleWorker EXCEPT !.pc = "phase1", !.i = 1,
                                            !.proto_commits = pcs,
                                            !.n_proto_tx_any = Len(pcs)]]
  /\ UNCHANGED <<fs, cfg, main_pc, tasks, pairs_csv, summary_csv, catVars, mineVars, aggVars, colVars>>

\* one iteration of "for c in proto_commits"
Phase1Step(r) ==
  /\ worker[r].pc = "phase1"
  /\ worker[r].i <= Len(worker[r].proto_commits)
  /\ \E git_ok \in BOOLEAN :
       LET w == worker[r]
           f == filtered_changed_files(fs[r].hist, w.proto_commits[w.i], cfg, git_ok)
       IN  IF f.exc # "none"
           THEN worker' = [worker EXCEPT ![r] = Raised(f.exc)]
           ELSE \E po \in Orders(Range(protos_of(f.files))) :
                \E fo \in Orders(Range(cochange_of(f.files))) :
                  worker' = [worker EXCEPT ![r] = Phase1Commit(w, f.files, po, fo)]
  /\ UNCHANGED <<fs, cfg, main_pc, tasks, events_file, pairs_csv, summary_csv, catVars, mineVars, aggVars, colVars>>

\* lines 82-85: list the commits of Phase 2
Phase2Start(r) ==
  /\ worker[r].pc = "phase1"
  /\ worker[r].i > Len(worker[r].proto_commits)
  /\ LET all == list_all_non_merge_commits(fs[r].hist, cfg.max_all_commits)
     IN  worker' = [worker EXCEPT ![r].pc = "phase2", ![r].i = 1,
                                  ![r].all_commits = all, ![r].n_all_tx = Len(all)]
  /\ UNCHANGED <<fs, cfg, main_pc, tasks, events_file, pairs_csv, summary_csv, catVars, mineVars, aggVars, colVars>>

\* one iteration of "for c in all_commits"
Phase2Step(r) ==
  /\ worker[r].pc = "phase2"
  /\ worker[r].candidate_files # {}
  /\ worker[r].i <= Len(worker[r].all_commits)
  /\ \E git_ok \in BOOLEAN :
       LET w == worker[r]
           f == filtered_changed_files(fs[r].hist, w.all_commits[w.i], cfg, git_ok)
       IN  worker' = [worker EXCEPT ![r] =
             IF f.exc # "none" THEN Raised(f.exc) ELSE Phase2Commit(w, f.files)]
  /\ UNCHANGED <<fs, cfg, main_pc, tasks, events_file, pairs_csv, summary_csv, catVars, mineVars, aggVars, colVars>>

\* lib/io_utils.py write_csv: nothing is written for an empty row list
write_csv(old, rows) == IF Len(rows) = 0 THEN old ELSE File(rows)

\* lines 96-129 of compute_pairs_for_repo, then write_csv(pairs_csv, res.rows)
\* and the return of _process_one
ProcessOneReturn(r) ==
  /\ worker[r].pc = "phase2"
  /\ worker[r].candidate_files = {} \/ worker[r].i > Len(worker[r].all_commits)
  /\ LET rows == BuildRows(r, worker[r])
     IN  IF \E k \in 1..Len(rows) : RowRaises(rows[k])
         THEN /\ worker' = [worker EXCEPT ![r] = Raised("ZeroDivisionError")]
              /\ UNCHANGED pairs_csv
         ELSE /\ worker' = [worker EXCEPT ![r].pc = "returned", ![r].rows = rows]
              /\ pairs_csv' = [pairs_csv EXCEPT ![r] = write_csv(@, rows)]
  /\ UNCHANGED <<fs, cfg, main_pc, tasks, events_file, summary_csv, catVars, mineVars, aggVars, colVars>>

(***************************************************************************)
(* experiments/rq0/merge_outputs.py                                        *)
(*                                                                         *)
(* A table on disk is the list of the dict rows write_csv was given; a     *)
(* cell stands for the text csv.DictWriter wrote for the value.            *)
(***************************************************************************)
\* the keys of a row of compute_pairs_for_repo, in the order of the dict
PAIR_COLUMNS == <<"repo", "proto_file", "file", "file_category", "n_all_tx",
                  "n_proto_tx_for_proto", "n_file_tx", "n_both_tx", "support",
                  "confidence", "baseline", "lift">>

\* the keys of a row of mine_association_rules.py, in the order of the dict
LEGACY_COLUMNS == <<"proto", "file", "support", "confidence", "lift",
                    "count_proto_and_file", "count_proto", "count_file">>

\* csv.DictWriter(f, fieldnames=list(rows[0].keys()))
fieldnames(row) ==
  IF DOMAIN row = Range(PAIR_COLUMNS) THEN PAIR_COLUMNS ELSE LEGACY_COLUMNS

\* csv.reader over a table: next(reader) is its header line, the rest are the
\* lists of cells of its rows
csv_header(file) == fieldnames(file.lines[1])
csv_rows(file) ==
  [k \in 1..Len(file.lines) |->
     [j \in 1..Len(csv_header(file)) |-> file.lines[k][csv_header(file)[j]]]]

\* all_pairs.csv: the header line and the lists of cells written under it
NoTable == [exists |-> FALSE, header |-> <<>>, lines |-> <<>>]

\* sorted(pairs_dir.glob("repo=*/pairs.csv"))
csv_files(pairs) == SelectSeq(RepoList, LAMBDA r : r \in DOMAIN pairs /\ pairs[r].exists)

\* the rows written by "for fp in csv_files" over the first n files
RECURSIVE MergedRows(_, _, _)
MergedRows(pairs, files, n) ==
  IF n = 0 THEN <<>>
  ELSE MergedRows(pairs, files, n - 1) \o csv_rows(pairs[files[n]])

\* merge_repo_csvs: nothing is written when no pairs.csv is found; else the
\* header of the first file, then every data row of every file
merge_repo_csvs(pairs, old_out) ==
  LET files == csv_files(pairs)
  IN  IF Len(files) = 0 THEN old_out
      ELSE [exists |-> TRUE,
            header |-> csv_header(pairs[files[1]]),
            lines  |-> MergedRows(pairs, files, Len(files))]

\* pool.starmap returns when every task has ended: it re-raises a task's
\* exception, else main() writes repo_summary.csv and, with --merge_all,
\* all_pairs.csv
MainCollect ==
  /\ main_pc = "pool"
  /\ \A r \in Range(tasks) : Finished(r)
  /\ IF \E r \in Range(tasks) : worker[r].pc = "raised"
     THEN /\ main_pc' = "raised"
          /\ UNCHANGED <<summary_csv, all_pairs_csv>>
     ELSE /\ main_pc' = "done"
          /\ summary_csv' = write_csv(summary_csv,
                              [k \in 1..Len(tasks) |-> Summary(tasks[k], worker[tasks[k]])])
          /\ all_pairs_csv' = IF merge_all THEN merge_repo_csvs(pairs_csv, all_pairs_csv)
                              ELSE all_pairs_csv
  /\ UNCHANGED <<fs, cfg, tasks, worker, events_file, pairs_csv, catVars, mineVars,
                  merge_all, n_runs, prev_run, colVars>>

Next ==
  \/ MainStart
  \/ \E r \in DOMAIN fs : ProcessOneEvents(r)
  \/ \E r \in DOMAIN fs : Phase1Step(r)
  \/ \E r \in DOMAIN fs : Phase2Start(r)
  \/ \E r \in DOMAIN fs : Phase2Step(r)
  \/ \E r \in DOMAIN fs : ProcessOneReturn(r)
  \/ MainCollect

InitRun(repos) ==
  /\ main_pc = "init"
  /\ tasks = <<>>
  /\ worker = [r \in repos |-> IdleWorker]
  /\ events_file = [r \in repos |-> NoFile]
  /\ pairs_csv = [r \in repos |-> NoFile]
  /\ summary_csv = NoFile

NoCall == call_path = "" /\ category = "unset"

\* the first run of main() on an empty out_dir, without --merge_all
FirstRun == n_runs = 1 /\ prev_run = [main_pc |-> "none"]
NoMerge == merge_all = FALSE /\ all_pairs_csv = NoTable

\* collect_transactions.py not started, no CSV in its results directory
ColIdle ==
  /\ col_csv = [exists |-> FALSE, urls |-> <<>>]
  /\ col_pc = "init"
  /\ col_procs = 0
  /\ col_task = <<>>
  /\ col_dirs = [n \in {} |-> "absent"]
  /\ col_rows = <<>>
  /\ col_out = NoFile

\* mine_association_rules.py not started, no transactions.jsonl in its directory
MineIdle ==
  /\ transactions_jsonl = NoFile
  /\ mine_pc = "init"
  /\ total_tx = 0
  /\ count_file = EmptyCounter
  /\ co_count = EmptyCounter
  /\ output_csv = NoFile

\* one repository that has_proto accepts, with any history
Init ==
  /\ fs \in [{"repoA"} -> [hist : Histories, ls_proto : {TRUE}]]
  /\ cfg \in Configs
  /\ InitRun({"repoA"})
  /\ NoCall
  /\ MineIdle
  /\ NoMerge
  /\ FirstRun
  /\ ColIdle

Spec == Init /\ [][Next]_vars

(***************************************************************************)
(* mine_association_rules.py (the legacy rule evaluator)                   *)
(*                                                                         *)
(* transactions.jsonl is a list of runs [repo, transaction, n]: n          *)
(* consecutive lines of one repository holding the same list of paths.     *)
(***************************************************************************)
MIN_SUPPORT == <<5, 1000>>
MIN_CONFIDENCE == <<3, 10>>
MIN_LIFT == <<1, 1>>

is_proto(p) == endswith(p, ".proto")

\* the number of lines of a list of runs
RECURSIVE SumRuns(_)
SumRuns(runs) == IF Len(runs) = 0 THEN 0 ELSE runs[1].n + SumRuns(Tail(runs))

\* the runs whose transaction holds every path of S
RunsWith(runs, S) == SelectSeq(runs, LAMBDA run : S \subseteq Range(run.transaction))

\* lines 21-46: the counters after the loop over the transactions
CountTotal(runs) == SumRuns(runs)

CountFile(runs) ==
  LET seen == UNION {Range(runs[k].transaction) : k \in 1..Len(runs)}
  IN  [f \in seen |-> SumRuns(RunsWith(runs, {f}))]

CoCount(runs) ==
  LET seen == UNION {Range(runs[k].transaction) : k \in 1..Len(runs)}
      keys == {key \in seen \X seen :
                 /\ is_proto(key[1]) /\ ~is_proto(key[2])
                 /\ Len(RunsWith(runs, {key[1], key[2]})) > 0}
  IN  [key \in keys |-> SumRuns(RunsWith(runs, {key[1], key[2]}))]

\* MineRow without the MIN_LIFT test of lines 72-73
MineRow_no_lift_test(total, cfile, cc, key) ==
  LET n_co    == cc[key]
      supp_pf == Div(n_co, total)
      supp_p  == Div(Get(cfile, key[1]), total)
      supp_f  == Div(Get(cfile, key[2]), total)
      conf    == FDiv(supp_pf, supp_p)
      lift    == FDiv(conf, supp_f)
  IN  IF FEq(supp_p, Zero) \/ FEq(supp_f, Zero) THEN <<>>
      ELSE IF Gt(MIN_SUPPORT, supp_pf) THEN <<>>
      ELSE IF Gt(MIN_CONFIDENCE, conf) THEN <<>>
      ELSE << [proto                |-> key[1],
               file                 |-> key[2],
               support              |-> supp_pf,
               confidence           |-> conf,
               lift                 |-> lift,
               count_proto_and_file |-> n_co,
               count_proto          |-> Get(cfile, key[1]),
               count_file           |-> Get(cfile, key[2])] >>

\* lines 55-84: the row of one (proto, file) pair, <<>> when the loop skips it
MineRow(total, cfile, cc, key) ==
  LET n_co    == cc[key]
      supp_pf == Div(n_co, total)
      supp_p  == Div(Get(cfile, key[1]), total)
      supp_f  == Div(Get(cfile, key[2]), total)
      conf    == FDiv(supp_pf, supp_p)
      lift    == FDiv(conf, supp_f)
  IN  IF FEq(supp_p, Zero) \/ FEq(supp_f, Zero) THEN <<>>
      ELSE IF Gt(MIN_SUPPORT, supp_pf) THEN <<>>
      ELSE IF Gt(MIN_CONFIDENCE, conf) THEN <<>>
      ELSE IF Gt(MIN_LIFT, lift) THEN <<>>
      ELSE << [proto                |-> key[1],
               file                 |-> key[2],
               support              |-> supp_pf,
               confidence           |-> conf,
               lift                 |-> lift,
               count_proto_and_file |-> n_co,
               count_proto          |-> Get(cfile, key[1]),
               count_file           |-> Get(cfile, key[2])] >>

\* df.sort_values(by = lift, confidence, support, all descending)
SortKeyGeq(a, b) ==
  \/ Gt(a.lift, b.lift)
  \/ /\ FEq(a.lift, b.lift)
     /\ \/ Gt(a.confidence, b.confidence)
        \/ FEq(a.confidence, b.confidence) /\ Geq(a.support, b.support)

\* main(): count, evaluate every pair, sort, write; pd.read_json raises when
\* transactions.jsonl is missing, and nothing is written when no row is kept
MineMain ==
  /\ mine_pc = "init"
  /\ IF ~transactions_jsonl.exists
     THEN /\ mine_pc' = "raised"
          /\ UNCHANGED <<total_tx, count_file, co_count, output_csv>>
     ELSE LET runs  == transactions_jsonl.lines
              total == CountTotal(runs)
              cfile == CountFile(runs)
              cc    == CoCount(runs)
              kept  == {key \in DOMAIN cc : MineRow(total, cfile, cc, key) # <<>>}
          IN  /\ total_tx' = total
              /\ count_file' = cfile
              /\ co_count' = cc
              /\ mine_pc' = "done"
              /\ IF kept = {} THEN UNCHANGED output_csv
                 ELSE \E ord \in Orders(kept) :
                        LET rows == [k \in 1..Len(ord) |-> MineRow(total, cfile, cc, ord[k])[1]]
                        IN  /\ \A k \in 1..(Len(rows) - 1) : SortKeyGeq(rows[k], rows[k + 1])
                            /\ output_csv' = File(rows)
  /\ UNCHANGED <<rq0Vars, catVars, transactions_jsonl, aggVars, colVars>>

\* transactions.jsonl as collect_transactions.py writes it: every transaction
\* holds a .proto path.  MineShapes are its transactions, MineMults how often
\* the first four occur, FillerMults how often the last one does.
MineShapes == << <<"main.impl", "schema.proto">>,
                 <<"schema.proto">>,
                 <<"docs/old.proto", "main.impl">>,
                 <<"schema.proto", "service_pb2.py">>,
                 <<"docs/old.proto">> >>
MineMults == {0, 1, 5, 10}
FillerMults == {0, 975}

\* collect_for_repo: the repository each line names next to its transaction;
\* schema.proto and main.impl are paths of both repositories
MineRepos == <<"repoA", "repoB", "repoB", "repoA", "repoB">>

RunsOf(m) ==
  LET all == [k \in 1..Len(MineShapes) |->
                [repo |-> MineRepos[k], transaction |-> MineShapes[k], n |-> m[k]]]
  IN  SelectSeq(all, LAMBDA run : run.n > 0)

MineInputs ==
  {RunsOf(m) : m \in {f \in [1..Len(MineShapes) -> MineMults \cup FillerMults] :
                        /\ f[Len(MineShapes)] \in FillerMults
                        /\ \A k \in 1..(Len(MineShapes) - 1) : f[k] \in MineMults}}

(***************************************************************************)
(* The two rule evaluators, each on inputs of its own: compute_pairs over  *)
(* histories of schema.proto and main.impl, mine_association_rules.py over *)
(* a transactions.jsonl.                                                   *)
(***************************************************************************)
MaxRuleCommits == 5

RuleHistories == HistoriesOver({"schema.proto", "main.impl"}, MaxRuleCommits)

InitRules ==
  /\ NoCall
  /\ NoMerge
  /\ FirstRun
  /\ ColIdle
  /\ \/ /\ fs \in [{"repoA"} -> [hist : RuleHistories, ls_proto : {TRUE}]]
        /\ cfg = ConfigWithPatterns(NoneValue, SKIP_PATTERNS)
        /\ InitRun({"repoA"})
        /\ MineIdle
     \/ /\ fs = [r \in {} |-> 0]
        /\ cfg = RQ0Config(NoneValue)
        /\ InitRun({})
        /\ transactions_jsonl \in {File(runs) : runs \in MineInputs}
        /\ mine_pc = "init"
        /\ total_tx = 0
        /\ count_file = EmptyCounter
        /\ co_count = EmptyCounter
        /\ output_csv = NoFile

NextRules == Next \/ MineMain

SpecRules == InitRules /\ [][NextRules]_vars

(***************************************************************************)
(* A run of main() over two repository directories                         *)
(***************************************************************************)
MaxRunCommits == 2

RunHistories ==
  UNION {[1..k -> [files : {{}, {"schema.proto", "main.impl"}}]] : k \in 0..MaxRunCommits}

InitRunAll ==
  /\ fs \in [Range(RepoList) -> [hist : RunHistories, ls_proto : BOOLEAN]]
  /\ cfg \in {RQ0Config(NoneValue), ConfigWithPatterns(NoneValue, SKIP_PATTERNS)}
  /\ InitRun(Range(RepoList))
  /\ NoCall
  /\ MineIdle
  /\ NoMerge
  /\ FirstRun
  /\ ColIdle

SpecRun == InitRunAll /\ [][Next]_vars

(***************************************************************************)
(* Runs of main() --merge_all over two repository directories, started     *)
(* again on the same out_dir                                               *)
(***************************************************************************)
MaxRuns == 2
MaxMergeCommits == 3

\* the change sets of a commit of repoA; repoB has a history of RunHistories
MergeShapes == {{}, {"main.impl"}, {"schema.proto", "main.impl", "service_pb2.py"}}
MergeHistories == UNION {[1..k -> [files : MergeShapes]] : k \in 0..MaxMergeCommits}

\* a table with the columns of mine_association_rules.py, found as
\* rq0/pairs/repo=repoB/pairs.csv
ForeignTable ==
  File(<< [proto                |-> "schema.proto",
           file                 |-> "main.impl",
           support              |-> <<1, 100>>,
           confidence           |-> <<1, 2>>,
           lift                 |-> <<100, 3>>,
           count_proto_and_file |-> 10,
           count_proto          |-> 20,
           count_file           |-> 15] >>)

\* the repositories when main() is started again: unchanged, or one of them
\* has lost its .proto files from the index (git ls-files '*.proto' is empty)
NextFs(f) ==
  {f} \cup {[f EXCEPT ![r].ls_proto = FALSE] : r \in {q \in DOMAIN f : f[q].ls_proto}}

\* main() is started again after a run has ended; out_dir keeps its files
MainAgain ==
  /\ main_pc \in {"done", "raised"}
  /\ n_runs < MaxRuns
  /\ n_runs' = n_runs + 1
  /\ prev_run' = [main_pc     |-> main_pc,
                  fs          |-> fs,
                  events_file |-> events_file,
                  pairs_csv   |-> pairs_csv]
  /\ fs' \in NextFs(fs)
  /\ main_pc' = "init"
  /\ tasks' = <<>>
  /\ worker' = [r \in DOMAIN fs |-> IdleWorker]
  /\ UNCHANGED <<cfg, events_file, pairs_csv, summary_csv, catVars, mineVars,
                  merge_all, all_pairs_csv, colVars>>

InitMerge ==
  /\ fs \in {[repoA |-> a, repoB |-> b] :
               a \in [hist : MergeHistories, ls_proto : {TRUE}],
               b \in [hist : RunHistories, ls_proto : BOOLEAN]}
  /\ cfg = ConfigWithPatterns(NoneValue, {})
  /\ main_pc = "init"
  /\ tasks = <<>>
  /\ worker = [r \in Range(RepoList) |-> IdleWorker]
  /\ events_file = [r \in Range(RepoList) |-> NoFile]
  /\ summary_csv = NoFile
  /\ pairs_csv \in {[r \in Range(RepoList) |-> NoFile],
                     [r \in Range(RepoList) |-> IF r = "repoB" THEN ForeignTable ELSE NoFile]}
  /\ NoCall
  /\ MineIdle
  /\ merge_all = TRUE
  /\ all_pairs_csv = NoTable
  /\ FirstRun
  /\ ColIdle

NextMerge == Next \/ MainAgain

SpecMerge == InitMerge /\ [][NextMerge]_vars

(***************************************************************************)
(* _process_one over a repository that tracks main.impl and a file whose   *)
(* name is main.impl after a blank: diff-tree prints two lines that        *)
(* f.strip() makes equal                                                   *)
(***************************************************************************)
MaxDupCommits == 3

DupShapes == {{}, {"main.impl"}, {" main.impl"}, {"main.impl", " main.impl"},
              {"schema.proto", "main.impl"},
              {"schema.proto", "main.impl", " main.impl"}}
DupHistories == UNION {[1..k -> [files : DupShapes]] : k \in 0..MaxDupCommits}

InitDup ==
  /\ fs \in [{"repoA"} -> [hist : DupHistories, ls_proto : {TRUE}]]
  /\ cfg = ConfigWithPatterns(NoneValue, {})
  /\ InitRun({"repoA"})
  /\ NoCall
  /\ MineIdle
  /\ NoMerge
  /\ FirstRun
  /\ ColIdle

SpecDup == InitDup /\ [][Next]_vars

(***************************************************************************)
(* mine_association_rules.py over the transactions of a repository that    *)
(* tracks API.PROTO next to schema.proto: collect_transactions keeps every *)
(* changed path of a commit that has a path ending in ".proto"             *)
(***************************************************************************)
CaseShapes == << <<"API.PROTO", "schema.proto">>,
                 <<"main.impl", "schema.proto">>,
                 <<"schema.proto">>,
                 <<"API.PROTO", "main.impl", "schema.proto">> >>

CaseRunsOf(m) ==
  LET all == [k \in 1..Len(CaseShapes) |->
                [repo |-> "repoA", transaction |-> CaseShapes[k], n |-> m[k]]]
  IN  SelectSeq(all, LAMBDA run : run.n > 0)

CaseInputs == {CaseRunsOf(m) : m \in [1..Len(CaseShapes) -> MineMults]}

InitCase ==
  /\ fs = [r \in {} |-> 0]
  /\ cfg = RQ0Config(NoneValue)
  /\ InitRun({})
  /\ NoCall
  /\ NoMerge
  /\ FirstRun
  /\ ColIdle
  /\ transactions_jsonl \in {File(runs) : runs \in CaseInputs}
  /\ mine_pc = "init"
  /\ total_tx = 0
  /\ count_file = EmptyCounter
  /\ co_count = EmptyCounter
  /\ output_csv = NoFile

NextCase == MineMain

SpecCase == InitCase /\ [][NextCase]_vars

(***************************************************************************)
(* collect_transactions.py with ensure_full_repo (clone and collect):      *)
(* main() and its pool of collect_for_repo calls over the URLs of the CSV  *)
(***************************************************************************)
MaxUrls == 2

UrlSet == {"https://github.com/a/proto", "https://github.com/b/proto",
           "https://github.com/a/grpc/"}

\* ensure_full_repo line 101: repo_url.rstrip("/").split("/")[-1]
url_name(repo_url) ==
  LET t == rstrip_slash(repo_url)
  IN  SubSeq(t, rfind(t, "/") + 1, Len(t))
UrlName == [u \in UrlSet |-> url_name(u)]
DirNames == {UrlName[u] : u \in UrlSet}

\* multiprocessing.cpu_count() of the machines main() runs on
CpuCounts == {2, 4}

Min2(a, b) == IF a <= b THEN a ELSE b
Max2(a, b) == IF a >= b THEN a ELSE b

Running(i) == col_task[i].pc \in {"cloning", "unshallowing", "collecting"}

\* the directory REPOS_DIR / name that task i works on
DirOf(i) == UrlName[col_csv.urls[i]]

\* main() lines 211-225: FileNotFoundError without the CSV; Pool(processes=0)
\* raises ValueError when the CSV has no protobuf URL
ColStart ==
  /\ col_pc = "init"
  /\ IF ~col_csv.exists
     THEN /\ col_pc' = "raised"
          /\ UNCHANGED <<col_procs, col_task>>
     ELSE \E max_procs \in CpuCounts :
            LET n_procs == Min2(Len(col_csv.urls), Max2(1, max_procs - 2))
            IN  /\ col_procs' = n_procs
                /\ IF n_procs = 0
                   THEN col_pc' = "raised" /\ UNCHANGED col_task
                   ELSE /\ col_pc' = "pool"
                        /\ col_task' = [k \in 1..Len(col_csv.urls) |-> [pc |-> "queued"]]
  /\ UNCHANGED <<rq0Vars, catVars, mineVars, aggVars, col_csv, col_dirs, col_rows, col_out>>

\* a free pool process takes task i: ensure_full_repo up to its first git
\* call.  Lines 105-108: no directory, clone_from starts and creates it;
\* lines 115-125: .git/shallow there, Repo() opens it (then fetch --unshallow
\* starts) or raises InvalidGitRepositoryError (then rmtree and clone_from);
\* lines 145-149: any other directory is taken as a full clone
EnsureStart(i) ==
  /\ col_pc = "pool"
  /\ col_task[i].pc = "queued"
  /\ Cardinality({j \in DOMAIN col_task : Running(j)}) < col_procs
  /\ LET d == col_dirs[DirOf(i)]
     IN  IF d = "absent"
         THEN /\ col_dirs' = [col_dirs EXCEPT ![DirOf(i)] = "partial"]
              /\ col_task' = [col_task EXCEPT ![i].pc = "cloning"]
         ELSE IF d = "shallow"
         THEN \E opens \in BOOLEAN :
                IF opens
                THEN /\ col_task' = [col_task EXCEPT ![i].pc = "unshallowing"]
                     /\ UNCHANGED col_dirs
                ELSE /\ col_dirs' = [col_dirs EXCEPT ![DirOf(i)] = "partial"]
                     /\ col_task' = [col_task EXCEPT ![i].pc = "cloning"]
         ELSE /\ col_task' = [col_task EXCEPT ![i].pc = "collecting"]
              /\ UNCHANGED col_dirs
  /\ UNCHANGED <<rq0Vars, catVars, mineVars, aggVars, col_csv, col_pc, col_procs, col_rows, col_out>>

\* Repo.clone_from returns (the directory is a full clone) or raises
\* GitCommandError (ensure_full_repo returns None, collect_for_repo [])
CloneEnd(i) ==
  /\ col_task[i].pc = "cloning"
  /\ \E cloned \in BOOLEAN :
       IF cloned
       THEN /\ col_dirs' = [col_dirs EXCEPT ![DirOf(i)] = "full"]
            /\ col_task' = [col_task EXCEPT ![i].pc = "collecting"]
       ELSE /\ \E rest \in {"absent", "partial"} :
                 col_dirs' = [col_dirs EXCEPT ![DirOf(i)] = rest]
            /\ col_task' = [col_task EXCEPT ![i].pc = "done"]
  /\ UNCHANGED <<rq0Vars, catVars, mineVars, aggVars, col_csv, col_pc, col_procs, col_rows, col_out>>

\* lines 132-143: fetch --unshallow returns, or raises and the directory is
\* removed and cloned again
UnshallowEnd(i) ==
  /\ col_task[i].pc = "unshallowing"
  /\ \E fetched \in BOOLEAN :
       IF fetched
       THEN /\ col_dirs' = [col_dirs EXCEPT ![DirOf(i)] = "full"]
            /\ col_task' = [col_task EXCEPT ![i].pc = "collecting"]
       ELSE /\ col_dirs' = [col_dirs EXCEPT ![DirOf(i)] = "partial"]
            /\ col_task' = [col_task EXCEPT ![i].pc = "cloning"]
  /\ UNCHANGED <<rq0Vars, catVars, mineVars, aggVars, col_csv, col_pc, col_procs, col_rows, col_out>>

\* collect_for_repo lines 177-194 and main() line 228: collect_transactions
\* walks the directory; its rows reach all_rows, or it has none (no .proto
\* commit, or an exception, which collect_for_repo turns into [])
CollectEnd(i) ==
  /\ col_task[i].pc = "collecting"
  /\ \E has_rows \in (IF col_dirs[DirOf(i)] = "absent" THEN {FALSE} ELSE BOOLEAN) :
       col_rows' = IF has_rows THEN Append(col_rows, DirOf(i)) ELSE col_rows
  /\ col_task' = [col_task EXCEPT ![i].pc = "done"]
  /\ UNCHANGED <<rq0Vars, catVars, mineVars, aggVars, col_csv, col_pc, col_procs, col_dirs, col_out>>

\* main() lines 230-239: every result is in; transactions.jsonl is written
\* unless all_rows is empty
ColCollect ==
  /\ col_pc = "pool"
  /\ \A i \in DOMAIN col_task : col_task[i].pc = "done"
  /\ col_pc' = "done"
  /\ col_out' = IF Len(col_rows) = 0 THEN col_out ELSE File(col_rows)
  /\ UNCHANGED <<rq0Vars, catVars, mineVars, aggVars, col_csv, col_procs, col_task, col_dirs, col_rows>>

UrlLists == UNION {[1..k -> UrlSet] : k \in 0..MaxUrls}

InitCollect ==
  /\ fs = [r \in {} |-> 0]
  /\ cfg = RQ0Config(NoneValue)
  /\ InitRun({})
  /\ NoCall
  /\ MineIdle
  /\ NoMerge
  /\ n_runs = 1
  /\ prev_run = [main_pc |-> "none"]
  /\ col_csv \in {[exists |-> FALSE, urls |-> <<>>]}
                 \cup {[exists |-> TRUE, urls |-> us] : us \in UrlLists}
  /\ col_pc = "init"
  /\ col_procs = 0
  /\ col_task = <<>>
  /\ col_dirs \in [DirNames -> {"absent", "shallow", "full"}]
  /\ col_rows = <<>>
  /\ col_out = NoFile

NextCollect ==
  \/ ColStart
  \/ \E i \in DOMAIN col_task : EnsureStart(i)
  \/ \E i \in DOMAIN col_task : CloneEnd(i)
  \/ \E i \in DOMAIN col_task : UnshallowEnd(i)
  \/ \E i \in DOMAIN col_task : CollectEnd(i)
  \/ ColCollect

SpecCollect == InitCollect /\ [][NextCollect]_vars

(***************************************************************************)
(* categorize as a call on one path                                        *)
(***************************************************************************)
CatDirs == {"", "tests/", "src/test/", "Testing/", "ci/", "tests/ci/", "ci/tests/",
            ".github/workflows/", "docker/test/", "k8s/", "src/", "contest/",
            "pipeline/"}
CatNames == {"deploy.yml", "main.py", "Dockerfile", "Makefile", "pom.xml",
             "schema.proto", "foo_test.go", "FooTest.java", "infra.tf", "run.sh",
             "README", "docker-compose.yml", "test"}
CatPaths == {d \o n : d \in CatDirs, n \in CatNames}

Categorize ==
  /\ category = "unset"
  /\ category' = categorize(call_path)
  /\ UNCHANGED <<rq0Vars, call_path, mineVars, aggVars, colVars>>

InitCat ==
  /\ fs = [r \in {} |-> 0]
  /\ InitRun({})
  /\ cfg = RQ0Config(NoneValue)
  /\ call_path \in CatPaths
  /\ category = "unset"
  /\ MineIdle
  /\ NoMerge
  /\ FirstRun
  /\ ColIdle

NextCat == Categorize

SpecCat == InitCat /\ [][NextCat]_vars
(***************************************************************************)
(* Properties                                                              *)
(***************************************************************************)
Repos == DOMAIN fs
Returned(r) == worker[r].pc = "returned"
RowsOf(r) == {worker[r].rows[k] : k \in 1..Len(worker[r].rows)}

\* C1: in every row compute_pairs_for_repo produces, for every history and
\* every max_all_commits, n_both_tx <= n_proto_tx_for_proto <= n_all_tx and
\* n_both_tx <= n_file_tx <= n_all_tx.
C1_CountsOrdered ==
  \A r \in Repos : \A row \in RowsOf(r) :
    /\ row.n_both_tx <= row.n_proto_tx_for_proto
    /\ row.n_proto_tx_for_proto <= row.n_all_tx
    /\ row.n_both_tx <= row.n_file_tx
    /\ row.n_file_tx <= row.n_all_tx

\* C2: in every row, support, confidence and baseline lie in [0, 1] and
\* lift >= 0.
InUnit(x) == Geq(x, Zero) /\ Geq(<<1, 1>>, x)
C2_MetricsInRange ==
  \A r \in Repos : \A row \in RowsOf(r) :
    /\ InUnit(row.support)
    /\ InUnit(row.confidence)
    /\ InUnit(row.baseline)
    /\ Geq(row.lift, Zero)

\* C3: a ratio whose denominator is zero is reported as 0.0, no
\* ZeroDivisionError is raised, and every observed pair still has its row.
C3_ZeroDenominators ==
  \A r \in Repos :
    /\ worker[r].exc # "ZeroDivisionError"
    /\ Returned(r) =>
         /\ {<<row.proto_file, row.file>> : row \in RowsOf(r)} = DOMAIN worker[r].n_both_tx
         /\ Len(worker[r].rows) = Cardinality(DOMAIN worker[r].n_both_tx)
    /\ \A row \in RowsOf(r) :
         /\ row.n_all_tx = 0 => row.support = Zero /\ row.baseline = Zero
         /\ row.n_proto_tx_for_proto = 0 => row.confidence = Zero
         /\ FEq(row.baseline, Zero) => row.lift = Zero
         /\ row.n_file_tx = 0 => FEq(row.baseline, Zero) /\ row.lift = Zero

\* C3 witness: a row was emitted although n_all_tx = 0 (and so n_file_tx = 0).
C3_Witness ==
  \E r \in Repos : \E row \in RowsOf(r) : row.n_all_tx = 0 /\ row.n_file_tx = 0

\* C4: a repository whose only commit is a root commit touching schema.proto
\* and main.impl yields exactly one transaction with these two files, and the
\* pair (schema.proto, main.impl) with n_both_tx = 1.
RootOnly(r) ==
  Len(fs[r].hist) = 1 /\ fs[r].hist[1].files = {"schema.proto", "main.impl"}
C4_RootCommitTransaction ==
  \A r \in Repos : (RootOnly(r) /\ Returned(r)) =>
    /\ Len(events_file[r].lines) = 1
    /\ events_file[r].lines[1].protobuf_files = <<"schema.proto">>
    /\ {events_file[r].lines[1].cochange_files[k].path :
          k \in 1..Len(events_file[r].lines[1].cochange_files)} = {"main.impl"}
    /\ Get(worker[r].n_both_tx, <<"schema.proto", "main.impl">>) = 1

\* C5: under the configuration main() builds (RQ0Config), no path for which
\* the skip rules of lib/skip_rules.py hold appears in an event record or in
\* a pair row.
SkipRulesHold ==
  [p \in PathSet |-> should_skip(p, SKIP_PREFIXES, SKIP_SUFFIXES, SKIP_PATTERNS)]
EventPaths(e) == Range(e.protobuf_files) \cup {e.cochange_files[k].path : k \in 1..Len(e.cochange_files)}
C5_NoSkippedPathEmitted ==
  ~cfg.has_skip_patterns =>
    \A r \in Repos :
      /\ \A k \in 1..Len(events_file[r].lines) :
           \A p \in EventPaths(events_file[r].lines[k]) : ~SkipRulesHold[p]
      /\ \A row \in RowsOf(r) : ~SkipRulesHold[row.proto_file] /\ ~SkipRulesHold[row.file]

\* the components of a path, split at "/"
RECURSIVE Split(_)
Split(s) ==
  LET I == {i \in 1..Len(s) : Ch(s, i) = "/"}
  IN  IF I = {} THEN <<s>>
      ELSE LET i == CHOOSE i \in I : \A j \in I : i <= j
           IN  <<SubSeq(s, 1, i - 1)>> \o Split(SubSeq(s, i + 1, Len(s)))

HasTestDir(p) ==
  \E k \in 1..(Len(Split(p)) - 1) : lower(Split(p)[k]) \in {"test", "tests", "testing"}

\* C6: a path with a directory component test/, tests/ or testing/ is
\* categorized test, whatever CI or infra directories and extension it has.
C6_TestDirFirst ==
  (category # "unset" /\ HasTestDir(call_path)) => category = "test"

\* C6 witness: tests/ci/deploy.yml has been categorized, as test.
C6_Witness == call_path = "tests/ci/deploy.yml" /\ category = "test"

\* C8: the rows of a repository's pair table are ordered by lift, then
\* confidence, then support, all descending.
RankGeq(a, b) ==
  \/ Gt(a.lift, b.lift)
  \/ /\ FEq(a.lift, b.lift)
     /\ \/ Gt(a.confidence, b.confidence)
        \/ FEq(a.confidence, b.confidence) /\ Geq(a.support, b.support)
C8_RowsSorted ==
  \A r \in Repos : \A k \in 1..(Len(worker[r].rows) - 1) :
    RankGeq(worker[r].rows[k], worker[r].rows[k + 1])

\* C10: a failing git call for one commit does not escape the repository
\* pass: no _process_one call ends with GitError.
C10_CommitErrorContained ==
  \A r \in Repos : worker[r].exc # "GitError"

\* a row for the pair key is in proto_file_cochanges.csv
MineEmitted(key) ==
  \E k \in 1..Len(output_csv.lines) :
    output_csv.lines[k].proto = key[1] /\ output_csv.lines[k].file = key[2]

\* support >= 0.005, confidence >= 0.3 and lift >= 1.0 on the counters
MeetsThresholds(n_both, n_proto, n_file, n_all) ==
  /\ 1000 * n_both >= 5 * n_all
  /\ 10 * n_both >= 3 * n_proto
  /\ n_both * n_all >= n_proto * n_file

ExampleCounters ==
  /\ mine_pc = "done"
  /\ total_tx = 1000
  /\ Get(co_count, <<"schema.proto", "main.impl">>) = 10
  /\ Get(count_file, "schema.proto") = 20
  /\ Get(count_file, "main.impl") = 15

C9_RunSurvivesFailures ==
  /\ main_pc # "raised"
  /\ main_pc = "done" =>
       \A r \in Range(tasks) : Returned(r) =>
         \E k \in 1..Len(summary_csv.lines) : summary_csv.lines[k].repo = r


\* main() has ended normally and merge_repo_csvs has written all_pairs.csv
MergeWrote == main_pc = "done" /\ merge_all /\ Len(csv_files(pairs_csv)) > 0

\* some pairs.csv has a header that differs from the first table's header
HeadersDiffer ==
  \E r \in Range(csv_files(pairs_csv)) :
    csv_header(pairs_csv[r]) # csv_header(pairs_csv[csv_files(pairs_csv)[1]])

\* C11: when the per-repository tables do not all have the columns of the
\* first one, merge_repo_csvs fails: main() --merge_all does not end normally.
C11_MismatchedColumnsFail ==
  (merge_all /\ Len(csv_files(pairs_csv)) > 0 /\ HeadersDiffer) => main_pc # "done"

\* the cells of the rows the workers of this run returned, for the first n
\* repositories in name order
RECURSIVE RunRows(_)
RunRows(n) ==
  IF n = 0 THEN <<>>
  ELSE RunRows(n - 1) \o
       [k \in 1..Len(worker[RepoList[n]].rows) |->
          [j \in 1..Len(PAIR_COLUMNS) |-> worker[RepoList[n]].rows[k][PAIR_COLUMNS[j]]]]

\* C12: when every table in the pairs directory is a pair table, the merged
\* table is exactly the data rows of the pair tables of the current run, each
\* once, with its cells unchanged (the repo cell included), and nothing else.
PairTablesOnly ==
  \A r \in Range(csv_files(pairs_csv)) : csv_header(pairs_csv[r]) = PAIR_COLUMNS
C12_MergedIsConcatenation ==
  (MergeWrote /\ PairTablesOnly) =>
    /\ all_pairs_csv.header = PAIR_COLUMNS
    /\ all_pairs_csv.lines = RunRows(Len(RepoList))

\* C13: a second run on unchanged repositories with the same configuration
\* leaves the same event logs and the same pair tables, rows in the same
\* order.
C13_RerunIdentical ==
  (prev_run.main_pc = "done" /\ main_pc = "done" /\ prev_run.fs = fs) =>
    /\ events_file = prev_run.events_file
    /\ pairs_csv = prev_run.pairs_csv


\* C14: whatever max_all_commits is, list_all_non_merge_commits returns at
\* least as many commits as list_proto_change_commits.
C14_AllAtLeastProto ==
  \A r \in Repos : worker[r].pc \in {"phase2", "returned"} =>
    Len(worker[r].all_commits) >= Len(worker[r].proto_commits)

\* the non-excluded change set of commit c: the paths it changes (for the root
\* commit, the paths of its tree) that the skip rules keep
ChangeSet(hist, c, pats) == {p \in hist[c].files : ~SkipOf[pats][p]}

\* C15: in every row, n_all_tx is the number of non-merge commits of the
\* repository and n_file_tx the number of them whose non-excluded change set
\* holds the row's file.
C15_BaselineOverWholeHistory ==
  \A r \in Repos : \A row \in RowsOf(r) :
    /\ row.n_all_tx = Len(fs[r].hist)
    /\ row.n_file_tx = Cardinality({c \in 1..Len(fs[r].hist) :
                                      row.file \in ChangeSet(fs[r].hist, c, cfg.skip_patterns)})

\* commit c changes interface-definition paths and the skip rules remove
\* every one of them
ProtoPathsAllSkipped(hist, c, pats) ==
  LET files == Range(changed_files_in_commit(hist, c))
  IN  /\ \E p \in files : ProtoSuffix[p]
      /\ \A p \in files : ProtoSuffix[p] => SkipOf[pats][p]

OwnRuns(runs, r) == SelectSeq(runs, LAMBDA own : own.repo = r)

\* the counts of one pair over the lines of repository r alone
OwnCounts(runs, r, row) ==
  LET own == OwnRuns(runs, r)
  IN  /\ row.count_proto = SumRuns(RunsWith(own, {row.proto}))
      /\ row.count_file = SumRuns(RunsWith(own, {row.file}))
      /\ row.count_proto_and_file = SumRuns(RunsWith(own, {row.proto, row.file}))
      /\ FEq(row.support, Div(row.count_proto_and_file, SumRuns(own)))

\* C17: every row is computed from the commits of one repository only and
\* carries that repository: a pair row of compute_pairs names the repository
\* of the worker that built it, and a row of mine_association_rules.py has a
\* repo field and the counts of that repository's lines of
\* transactions.jsonl alone, whatever the lines of other repositories are
C17_RowsLocalToRepository ==
  /\ \A r \in Repos : Returned(r) =>
        \A k \in 1..Len(RowsOf(r)) : RowsOf(r)[k].repo = r
  /\ (mine_pc = "done" /\ output_csv.exists) =>
        \A k \in 1..Len(output_csv.lines) :
          LET row == output_csv.lines[k]
              runs == transactions_jsonl.lines
          IN  /\ "repo" \in DOMAIN row
              /\ \E r \in {runs[j].repo : j \in 1..Len(runs)} : OwnCounts(runs, r, row)

\* the position of a repository name in name order
RepoIndex(name) == CHOOSE i \in 1..Len(RepoList) : RepoList[i] = name

\* the ranking on the cells of a merged row: lift, confidence, support (the
\* cells 12, 10 and 9 of PAIR_COLUMNS), all descending
CellRankGeq(a, b) ==
  \/ Gt(a[12], b[12])
  \/ /\ FEq(a[12], b[12])
     /\ \/ Gt(a[10], b[10])
        \/ FEq(a[10], b[10]) /\ Geq(a[9], b[9])

\* C18: the persisted tables are in the canonical order whatever order the
\* workers end in: the rows of repo_summary.csv follow the repository names,
\* and the rows of all_pairs.csv follow the repository names and, within one
\* repository, the ranking (lift, confidence, support, descending).
C18_CanonicalOrder ==
  /\ (main_pc = "done" /\ summary_csv.exists) =>
        \A k \in 1..(Len(summary_csv.lines) - 1) :
          RepoIndex(summary_csv.lines[k].repo) < RepoIndex(summary_csv.lines[k + 1].repo)
  /\ (MergeWrote /\ PairTablesOnly) =>
        \A k \in 1..(Len(all_pairs_csv.lines) - 1) :
          LET a == all_pairs_csv.lines[k]
              b == all_pairs_csv.lines[k + 1]
          IN  \/ RepoIndex(a[1]) < RepoIndex(b[1])
              \/ a[1] = b[1] /\ CellRankGeq(a, b)

\* C19: when no repository is found (no directory of repos_dir passes
\* has_proto), main() ends in a fatal error before the pool gets a task and
\* before a table is written: a run never ends normally with no task.
C19_NoRepositoryIsFatal ==
  main_pc = "done" => Len(tasks) > 0

\* the rules of the classification, numbered in their priority order, that a
\* path matches; rule 10 (other) matches every path
Categories == {"test", "ci", "infra", "build", "impl", "config", "proto", "other"}
RuleCategory == <<"test", "ci", "infra", "build", "impl", "config", "infra", "build",
                  "proto", "other">>
RuleMatches(n, path) ==
  LET comps == Split(lower(path))
      dirs  == {comps[k] : k \in 1..(Len(comps) - 1)}
      name  == comps[Len(comps)]
      ext   == PathSuffix(name)
  IN  CASE n = 1 -> \/ Range(comps) \cap {"test", "tests", "testing"} # {}
                    \/ endswith(name, "_test.go") \/ endswith(name, "test.java")
        [] n = 2 -> \/ Range(comps) \cap {"ci", "pipeline", "workflows"} # {}
                    \/ Len(comps) > 1 /\ comps[1] \in {".github", ".gitlab"}
        [] n = 3 -> \/ Len(comps) > 1 /\ comps[1] \in {"docker", "k8s", "helm", "charts"}
                    \/ contains(lower(path), "docker-compose")
                    \/ name = "dockerfile"
        [] n = 4 -> name \in {"makefile", "pom.xml", "build.gradle", "settings.gradle"}
        [] n = 5 -> ext \in EXT_IMPL
        [] n = 6 -> ext \in EXT_CONFIG
        [] n = 7 -> ext \in EXT_INFRA
        [] n = 8 -> ext \in EXT_BUILD \cup {".sh", ".bash", ".zsh"}
        [] n = 9 -> ext = ".proto"
        [] OTHER -> TRUE
FirstMatch(path) ==
  CHOOSE n \in 1..Len(RuleCategory) :
    RuleMatches(n, path) /\ \A m \in 1..(n - 1) : ~RuleMatches(m, path)

\* C20: categorize returns a value for every path, and the value is the
\* category of the first rule the path matches in the order test directory or
\* filename, CI directory, infra directory or container manifest name, build
\* manifest name, implementation extension, configuration extension, infra
\* extension, build or shell extension, .proto suffix, other; it is one of
\* the eight categories.
C20_FirstMatchInFixedOrder ==
  category # "unset" =>
    /\ category = RuleCategory[FirstMatch(call_path)]
    /\ category \in Categories

\* C20 witness: k8s/Makefile, which matches the infra-directory rule and the
\* build-manifest rule, has been categorized as infra.
C20_Witness ==
  /\ call_path = "k8s/Makefile"
  /\ RuleMatches(3, call_path) /\ RuleMatches(4, call_path)
  /\ category = "infra"

\* worker r takes one iteration of the loop it is in and stays in the loop
LoopStep(r, phase) ==
  /\ worker[r].pc = phase
  /\ worker'[r].pc = phase
  /\ worker'[r].i = worker[r].i + 1

\* the surviving set of the commit worker r is at: the paths its resolved
\* change list names, each once
Surviving(r, commits) ==
  Range(filtered_changed_files(fs[r].hist, commits[worker[r].i], cfg, TRUE).files)

\* C21: one commit adds at most 1 to each counter, however often its
\* resolved change list names a path: a Phase 1 iteration adds 1 to
\* n_proto_tx_for_proto[p] for the .proto paths p of the surviving set and 1
\* to n_both_tx[(p, f)] for its (.proto, other) pairs, a Phase 2 iteration
\* adds 1 to n_file_tx[f] for the candidate files f of the surviving set, and
\* every other count stays as it was.
C21_OncePerCommit ==
  [][\A r \in Repos :
       /\ LoopStep(r, "phase1") =>
            LET surv == Surviving(r, worker[r].proto_commits)
                P    == {p \in surv : ProtoSuffix[p]}
                F    == {f \in surv : ~ProtoSuffix[f] /\ CategoryOf[f] # "proto"}
            IN  /\ \A p \in PathSet :
                     Get(worker'[r].n_proto_tx_for_proto, p)
                       = Get(worker[r].n_proto_tx_for_proto, p) + (IF p \in P THEN 1 ELSE 0)
                /\ \A p \in PathSet : \A f \in PathSet :
                     Get(worker'[r].n_both_tx, <<p, f>>)
                       = Get(worker[r].n_both_tx, <<p, f>>)
                         + (IF p \in P /\ f \in F THEN 1 ELSE 0)
       /\ LoopStep(r, "phase2") =>
            LET surv == Surviving(r, worker[r].all_commits)
            IN  \A f \in PathSet :
                  Get(worker'[r].n_file_tx, f)
                    = Get(worker[r].n_file_tx, f)
                      + (IF f \in surv \cap worker[r].candidate_files THEN 1 ELSE 0)
    ]_vars

\* C21 witness: the Phase 2 loop has passed a commit whose change list names
\* main.impl twice, main.impl being a candidate file it has counted.
C21_Witness ==
  \E r \in Repos :
    /\ worker[r].pc = "phase2"
    /\ worker[r].i >= 2
    /\ LET files == changed_files_in_commit(fs[r].hist, worker[r].all_commits[worker[r].i - 1])
       IN  Cardinality({k \in 1..Len(files) : files[k] = "main.impl"}) = 2
    /\ "main.impl" \in worker[r].candidate_files
    /\ Get(worker[r].n_file_tx, "main.impl") >= 1

\* the records of an event log that name .proto path p and, when f is a path,
\* co-change file f
RecordsWith(lines, p, f) ==
  {k \in 1..Len(lines) :
     /\ p \in Range(lines[k].protobuf_files)
     /\ f = "" \/ \E j \in 1..Len(lines[k].cochange_files) : lines[k].cochange_files[j].path = f}

\* C22: once the Phase 1 loop of a repository has ended, counting the
\* records of its event log gives the Phase 1 counters: n_proto_tx_for_proto[p]
\* is the number of records that name p, n_both_tx[(p, f)] the number of
\* records that name p and f.
C22_EventsRecomputePhase1 ==
  \A r \in Repos :
    (worker[r].pc \in {"phase2", "returned"} /\ events_file[r].exists) =>
      \A p \in PathSet :
        /\ Get(worker[r].n_proto_tx_for_proto, p)
             = Cardinality(RecordsWith(events_file[r].lines, p, ""))
        /\ \A f \in PathSet :
             Get(worker[r].n_both_tx, <<p, f>>)
               = Cardinality(RecordsWith(events_file[r].lines, p, f))

\* C23: in the summary of a repository, n_proto_tx_any is the number of event
\* records written for it, n_pairs the number of distinct (proto_file, file)
\* pairs of its rows and n_unique_cochange_files the number of distinct files
\* of its rows.
C23_SummaryCountsEmitted ==
  main_pc = "done" =>
    \A k \in 1..Len(summary_csv.lines) :
      LET line == summary_csv.lines[k]
          rows == worker[line.repo].rows
      IN  /\ line.n_proto_tx_any = Len(events_file[line.repo].lines)
          /\ line.n_pairs = Cardinality({<<rows[j].proto_file, rows[j].file>> : j \in 1..Len(rows)})
          /\ line.n_unique_cochange_files = Cardinality({rows[j].file : j \in 1..Len(rows)})

\* p is an interface-definition path: it ends with .proto, whatever the case
\* of its letters, or is categorized proto
InterfacePath(p) == is_proto_suffix(p) \/ categorize(p) = "proto"

\* C24: in every pair row the interface file ends with .proto and the
\* co-change file is no interface-definition path, so the two are different
\* paths; for the rows of compute_pairs_for_repo and of
\* mine_association_rules.py.
C24_PairsRelateProtoToOther ==
  /\ \A r \in Repos : \A row \in RowsOf(r) :
        /\ is_proto_suffix(row.proto_file)
        /\ ~InterfacePath(row.file)
        /\ row.proto_file # row.file
  /\ (mine_pc = "done" /\ output_csv.exists) =>
        \A k \in 1..Len(output_csv.lines) :
          LET row == output_csv.lines[k]
          IN  /\ is_proto_suffix(row.proto)
              /\ ~InterfacePath(row.file)
              /\ row.proto # row.file

\* C25: two workers that run at the same time never work on the same path:
\* the tasks of main() name distinct repositories, and two collect_for_repo
\* calls that are running have different clone directories, whatever URLs
\* the CSV lists.
C25_WorkersOnDistinctPaths ==
  /\ \A a, b \in 1..Len(tasks) : a # b => tasks[a] # tasks[b]
  /\ \A i, j \in DOMAIN col_task :
        (i # j /\ Running(i) /\ Running(j)) => DirOf(i) # DirOf(j)

=============================================================================
